---- MODULE Spec2Model ----
(***************************************************************************)
(* GoldSight: a five-page Reflex application.  The model covers the app's  *)
(* route registration, the router path with NavbarState's computed vars,   *)
(* the component helpers (page_layout, chapter_progress) and the two       *)
(* file-reading helpers of the EDA page (load_plotly_chart and             *)
(* dataset_overview) over a file system holding the chart cache and the    *)
(* CSV.                                                                    *)
(*                                                                         *)
(* Python strings are sequences of string tokens: an f-string is the       *)
(* sequence of its literal parts and its interpolated values, a route is   *)
(* the sequence of its "/" separators and segments, "" is << >>.           *)
(***************************************************************************)
EXTENDS Integers, Sequences, FiniteSets, TLC

VARIABLES
    registered,   \* the pages app.add_page has registered so far, in order
    cache,        \* data/cache/<chart_name>.json : chart name -> file state
    csv,          \* data/combined_data.csv : file state
    path,         \* self.router.url.path, an optional string
    nav,          \* NavbarState's computed vars for the current path
    result,       \* what the last call of a component function returned
    trail,        \* the routes of the current unbroken run of next-chapter clicks
    call          \* the load_plotly_chart call in flight, step by step

vars == <<registered, cache, csv, path, nav, result, trail, call>>

---------------------------------------------------------------------------
(* Bounds of the model *)

MaxRows == 11        \* data rows of the CSV range over 0..MaxRows
MaxCols == 2         \* columns of the CSV range over 1..MaxCols
MaxChildren == 2     \* page_layout is called with 0..MaxChildren children
MaxCurrent == 5      \* chapter_progress is called with current in 0..MaxCurrent

---------------------------------------------------------------------------
(* Python values *)

\* An optional string: None, or a string s.
None == << >>
Some(s) == << s >>

\* Python truthiness of an optional string: None and "" are falsy.
Truthy(p) == p # None /\ p[1] # << >>

\* s contains the token t
Contains(s, t) == \E i \in 1..Len(s) : s[i] = t

Min(a, b) == IF a < b THEN a ELSE b

\* The outcome of a step that may raise: a value, or an exception whose
\* str() is err.
Ok(v) == [ok |-> TRUE, val |-> v, exc |-> "", err |-> << >>]
Raise(v, exc, msg) == [ok |-> FALSE, val |-> v, exc |-> exc, err |-> msg]

\* The exception classes the modelled calls raise; every one of them derives
\* from Exception.
OSErrors == {"FileNotFoundError", "PermissionError"}
ValueErrors == {"JSONDecodeError", "ValueError", "UnsupportedOperation"}
PandasErrors == {"ParserError", "EmptyDataError"}
ExceptionSubclasses == OSErrors \cup ValueErrors \cup PandasErrors

---------------------------------------------------------------------------
(* plotly.graph_objects.Figure *)

NoLayout == [title |-> << >>, annotations |-> << >>, height |-> 0]

\* go.Figure()
EmptyFigure == [data |-> << >>, layout |-> NoLayout]

\* fig.update_layout(title=..., annotations=[...], height=...)
update_layout(fig, title, annotations, height) ==
    [fig EXCEPT !.layout = [title |-> title, annotations |-> annotations,
                            height |-> height]]

Annotation(text, size, color) ==
    [text |-> text, showarrow |-> FALSE, x |-> "0.5", y |-> "0.5",
     size |-> size, color |-> color]

---------------------------------------------------------------------------
(* The chart cache: data/cache/<chart_name>.json *)

\* The chart names of the model: two of the charts the EDA page loads.
ChartNames == {"gold_currency_heatmap", "gold_price_timeseries"}

\* The figure the notebook stored under a chart name, with its own layout.
StoredFigure(chart_name) ==
    [data |-> << chart_name >>,
     layout |-> [title |-> << "Notebook chart ", chart_name >>,
                 annotations |-> << >>,
                 height |-> 600]]

\* What a cache file can hold:
\*   missing     no such file
\*   unreadable  the file exists and open() fails (no permission)
\*   notjson     text json.load rejects (an empty or truncated file too)
\*   null        the JSON value null
\*   notfigure   a JSON value go.Figure rejects
\*   figure      the JSON of a figure, {"data": ..., "layout": ...}
FileKinds == {"missing", "unreadable", "notjson", "null", "notfigure", "figure"}

File(kind, chart_name) ==
    [kind |-> kind,
     content |-> IF kind = "figure" THEN StoredFigure(chart_name) ELSE EmptyFigure]

FileStates(chart_name) == {File(k, chart_name) : k \in FileKinds}

\* cache_path.exists()
exists(f) == f.kind # "missing"

\* open(cache_path, mode): the handle, or the OSError; and the file as the
\* call leaves it ('r' leaves it alone, 'w' creates or truncates it).
py_open(f, mode) ==
    IF f.kind = "unreadable"
    THEN [res |-> Raise(f, "PermissionError", << "Permission denied" >>),
          after |-> f]
    ELSE IF mode = "r"
    THEN [res |-> IF f.kind = "missing"
                  THEN Raise(f, "FileNotFoundError", << "No such file or directory" >>)
                  ELSE Ok([file |-> f, mode |-> mode]),
          after |-> f]
    ELSE LET t == [kind |-> "notjson", content |-> EmptyFigure]
         IN [res |-> Ok([file |-> t, mode |-> mode]), after |-> t]

\* json.load(f): the parsed value of the handle's text.
json_load(h) ==
    IF h.mode # "r"
    THEN Raise(h.file, "UnsupportedOperation", << "not readable" >>)
    ELSE IF h.file.kind = "notjson"
    THEN Raise(h.file, "JSONDecodeError", << "Expecting value" >>)
    ELSE Ok(h.file)

\* go.Figure(fig_dict): None gives the empty figure, a figure dict gives the
\* figure with the dict's data and layout, anything else is a ValueError.
go_Figure(v) ==
    IF v.kind = "null" THEN Ok(EmptyFigure)
    ELSE IF v.kind = "figure"
    THEN Ok([data |-> v.content.data, layout |-> v.content.layout])
    ELSE Raise(EmptyFigure, "ValueError", << "Invalid element(s) received for the 'data' property" >>)

---------------------------------------------------------------------------
(* pages/eda.py: load_plotly_chart *)

\* Faulty variant of NotFoundFigure: the texts do not name the chart.
NotFoundFigureNoName(chart_name) ==
    update_layout(EmptyFigure,
                  << "Chart not found" >>,
                  << Annotation(<< "Run explore.ipynb to generate the chart" >>, 16, "gray") >>,
                  400)

\* The placeholder returned when the cache file does not exist.
NotFoundFigure(chart_name) ==
    update_layout(EmptyFigure,
                  << "Chart '", chart_name, "' not found" >>,
                  << Annotation(<< "Run explore.ipynb to generate ", chart_name, ".json" >>,
                                16, "gray") >>,
                  400)

\* The placeholder returned by the except branch; msg is str(e).
ErrorFigure(chart_name, msg) ==
    update_layout(EmptyFigure,
                  << "Error loading '", chart_name, "'" >>,
                  << Annotation(<< "Error: " >> \o msg, 14, "red") >>,
                  400)

\* Faulty variant of CacheOpenMode: the file is opened for writing.
CacheOpenModeWrite == "w"

\* The mode load_plotly_chart opens the cache file in.
CacheOpenMode == "r"

\* Faulty variant of Caught: "except OSError as e".
CaughtOSErrorOnly(exc) == exc \in OSErrors

\* "except Exception as e": the classes the handler catches.
Caught(exc) == exc \in ExceptionSubclasses

\* The except branch for a step that raised: the error placeholder when the
\* handler catches the exception, otherwise the exception leaves the call.
Except(chart_name, r, after) ==
    IF Caught(r.exc)
    THEN [raised |-> "", fig |-> ErrorFigure(chart_name, r.err), file |-> after]
    ELSE [raised |-> r.exc, fig |-> EmptyFigure, file |-> after]

\* Faulty variant of LoadedFigure: the loaded figure gets the placeholders'
\* title and height.
LoadedFigureRetitled(chart_name, fig) ==
    update_layout(fig, << chart_name >>, fig.layout.annotations, 400)

\* The figure handed back for a successfully parsed cache file: kept as
\* go.Figure built it (the original layout from the notebook).
LoadedFigure(chart_name, fig) == fig

\* Faulty variant of ReadOpened: json.load and go.Figure run outside the
\* try block, so what they raise leaves the call.
ReadOpenedOutsideTry(chart_name, h, after) ==
    LET j == json_load(h) IN
    IF ~j.ok THEN [raised |-> j.exc, fig |-> EmptyFigure, file |-> after]
    ELSE LET g == go_Figure(j.val) IN
         IF ~g.ok THEN [raised |-> g.exc, fig |-> EmptyFigure, file |-> after]
         ELSE [raised |-> "",
               fig |-> LoadedFigure(chart_name, g.val),
               file |-> after]

\* The body of the with block and what follows it, for the open handle h:
\* fig_dict = json.load(f); fig = go.Figure(fig_dict); return fig
ReadOpened(chart_name, h, after) ==
    LET j == json_load(h) IN
    IF ~j.ok THEN Except(chart_name, j, after)
    ELSE LET g == go_Figure(j.val) IN
         IF ~g.ok THEN Except(chart_name, g, after)
         ELSE [raised |-> "",
               fig |-> LoadedFigure(chart_name, g.val),
               file |-> after]

\* load_plotly_chart(chart_name), where `seen` is the file as
\* cache_path.exists() finds it and `f` the file as open() finds it.
\* Gives the figure returned (or the exception raised) and the file as the
\* call leaves it.
load_plotly_chart(chart_name, seen, f) ==
    IF ~exists(seen)
    THEN [raised |-> "", fig |-> NotFoundFigure(chart_name), file |-> f]
    ELSE LET o == py_open(f, CacheOpenMode) IN
         IF ~o.res.ok THEN Except(chart_name, o.res, o.after)
         ELSE ReadOpened(chart_name, o.res.val, o.after)

---------------------------------------------------------------------------
(* Reflex: rx.cond and rx.color *)

\* rx.cond(condition, c1, c2): a component holding both branches.
rx_cond(condition, c1, c2) == [cond |-> condition, c1 |-> c1, c2 |-> c2]

\* What a rendered rx.cond shows: c1 when the condition is true, else c2.
Shown(c) == IF c.cond THEN c.c1 ELSE c.c2

\* rx.color(name, shade)
rx_color(name, shade) == << name, ToString(shade) >>

---------------------------------------------------------------------------
(* The CSV: data/combined_data.csv, and pages/eda.py: dataset_overview *)

\* Column names of the CSV, in file order; a file has the first ncols of them.
ColNames == << "Date", "Gold_Spot", "Silver_Futures", "CPI" >>

\* What the CSV file can be: missing, unparsable (pandas rejects it; an
\* empty file too), or a table of nrows data rows and ncols columns.
CsvStates ==
    {[kind |-> k, nrows |-> 0, ncols |-> 0] : k \in {"missing", "unparsable"}}
    \cup {[kind |-> "table", nrows |-> n, ncols |-> c] :
              n \in 0..MaxRows, c \in 1..MaxCols}

\* The first column holds dates (dtype object), the others floats; the
\* first row's float cells are NaN.
IsFloatCol(c) == c > 1
IsNaN(r, c) == IsFloatCol(c) /\ r = 1
RawCell(r, c) == << ColNames[c], ToString(r) >>

\* pd.read_csv(data_path): the frame, or the exception.
read_csv(f) ==
    IF f.kind = "missing"
    THEN Raise(f, "FileNotFoundError", << "No such file or directory" >>)
    ELSE IF f.kind = "unparsable"
    THEN Raise(f, "ParserError", << "Error tokenizing data" >>)
    ELSE Ok([columns |-> SubSeq(ColNames, 1, f.ncols),
             index |-> [i \in 1..f.nrows |-> i]])

\* Rows shown in the preview: df.head(10)
PreviewRows == 10

head(df, n) == [df EXCEPT !.index = SubSeq(df.index, 1, Min(n, Len(df.index)))]

\* The formatting loop: a float cell becomes its 2-decimal string, or "" when
\* it is NaN; other cells are left as they are.
FormatCell(r, c) ==
    IF IsFloatCol(c)
    THEN IF IsNaN(r, c) THEN << >> ELSE << "%.2f" >> \o RawCell(r, c)
    ELSE RawCell(r, c)

\* rx.table.cell(str(cell) if cell != "" else "-")
CellText(cell) == IF cell # << >> THEN cell ELSE << "-" >>

\* metric_card(label, value, icon, color_scheme)
metric_card(label, value) == [label |-> label, value |-> value]

\* The preview box: caption, header cells and body rows of the table.
PreviewBox(columns, rows, total_rows, total_cols) ==
    [tag |-> "preview",
     caption |-> << "Showing ", "10", " of ", ToString(total_rows), " rows, ",
                    ToString(total_cols), " columns" >>,
     header |-> columns,
     body |-> [i \in 1..Len(rows) |->
                  [j \in 1..Len(rows[i]) |-> CellText(rows[i][j])]]]

\* rx.box()
EmptyBox == [tag |-> "box", caption |-> << >>, header |-> << >>, body |-> << >>]

\* The values the try/except of dataset_overview leaves in its locals.
OverviewLocals(f) ==
    LET r == read_csv(f) IN
    IF r.ok
    THEN LET df == r.val
             df_preview == head(df, PreviewRows)
         IN [columns |-> df.columns,
             rows |-> [i \in 1..Len(df_preview.index) |->
                          [c \in 1..Len(df.columns) |->
                              FormatCell(df_preview.index[i], c)]],
             data_loaded |-> TRUE,
             total_rows |-> Len(df.index),
             total_cols |-> Len(df.columns)]
    ELSE [columns |-> << "Error" >>,
          rows |-> << << << "Could not load data: " >> \o r.err >> >>,
          data_loaded |-> FALSE,
          total_rows |-> 0,
          total_cols |-> 0]

\* The preview slot of the section.
PreviewSlot(v) ==
    rx_cond(v.data_loaded,
            PreviewBox(v.columns, v.rows, v.total_rows, v.total_cols),
            EmptyBox)

\* Faulty variant of dataset_overview: the cards show the counts even when
\* the CSV did not load.
dataset_overview_no_fallback(f) ==
    LET v == OverviewLocals(f) IN
    [data_loaded |-> v.data_loaded,
     metrics |-> << metric_card("Total Features", ToString(v.total_cols)),
                    metric_card("Time Span", "19.5 Years"),
                    metric_card("Monthly Observations", ToString(v.total_rows)) >>,
     preview |-> PreviewSlot(v)]

\* dataset_overview(): the section's metric cards and its preview slot.
dataset_overview(f) ==
    LET v == OverviewLocals(f) IN
    [data_loaded |-> v.data_loaded,
     metrics |-> << metric_card("Total Features",
                        IF v.data_loaded THEN ToString(v.total_cols) ELSE "17"),
                    metric_card("Time Span", "19.5 Years"),
                    metric_card("Monthly Observations",
                        IF v.data_loaded THEN ToString(v.total_rows) ELSE "233") >>,
     preview |-> PreviewSlot(v)]

---------------------------------------------------------------------------
(* components/chapter_nav.py: chapter_progress *)

\* circle(number, label, position) inside chapter_progress(current)
circle(current, number, label, position) ==
    LET is_current == (position = current)
        is_completed == (position < current)
    IN [tag |-> "circle",
        number |-> number,
        label |-> label,
        number_color |-> Shown(rx_cond(is_current, << "white" >>, rx_color("gray", 11))),
        background_color |-> Shown(rx_cond(is_current, rx_color("amber", 9),
                                           rx_color("gray", 3))),
        border |-> Shown(rx_cond(is_completed \/ is_current,
                                 rx_color("amber", 9), rx_color("gray", 5))),
        label_weight |-> Shown(rx_cond(is_current, "bold", "medium")),
        label_color |-> Shown(rx_cond(is_current, rx_color("amber", 11),
                                      rx_color("gray", 10)))]

\* Faulty variant of connector_line: completed up to and including current.
connector_line_upto(current, position) ==
    LET is_completed == (position <= current)
    IN [tag |-> "line",
        background_color |-> Shown(rx_cond(is_completed, rx_color("amber", 9),
                                           rx_color("gray", 5)))]

\* connector_line(position) inside chapter_progress(current)
connector_line(current, position) ==
    LET is_completed == (position < current)
    IN [tag |-> "line",
        background_color |-> Shown(rx_cond(is_completed, rx_color("amber", 9),
                                           rx_color("gray", 5)))]

\* chapter_progress(current): the children of the flex row.
chapter_progress(current) ==
    << circle(current, "1", "Data Collection", 1),
       connector_line(current, 1),
       circle(current, "2", "EDA", 2),
       connector_line(current, 2),
       circle(current, "3", "Modeling", 3),
       connector_line(current, 3),
       circle(current, "4", "Forecast", 4) >>

---------------------------------------------------------------------------
(* components/navbar.py: NavbarState and navbar *)

\* Route strings
Slash == << "/" >>
Route(name) == << "/", name >>
WithSlash(r) == r \o << "/" >>

\* Faulty variant of current_route: only None is replaced by "/".
current_route_raw(p) == IF p # None THEN p[1] ELSE Slash

\* NavbarState.current_route
current_route(p) == IF Truthy(p) THEN p[1] ELSE Slash

\* NavbarState.is_*_active, each over the value of current_route
is_home_active(current) == current = Slash

is_data_collection_active(current) ==
    current = Route("data-collection") \/ current = WithSlash(Route("data-collection"))

is_eda_active(current) ==
    current = Route("eda") \/ current = WithSlash(Route("eda"))

\* Faulty variant of is_modeling_active: current.startswith("/modeling").
is_modeling_active_prefix(current) ==
    Len(current) >= 2 /\ SubSeq(current, 1, 2) = Route("modeling")

is_modeling_active(current) ==
    current = Route("modeling") \/ current = WithSlash(Route("modeling"))

is_forecast_active(current) ==
    current = Route("forecast") \/ current = WithSlash(Route("forecast"))

\* The computed vars of NavbarState for router path p.
NavbarState(p) ==
    LET current == current_route(p) IN
    [current_route |-> current,
     is_home_active |-> is_home_active(current),
     is_data_collection_active |-> is_data_collection_active(current),
     is_eda_active |-> is_eda_active(current),
     is_modeling_active |-> is_modeling_active(current),
     is_forecast_active |-> is_forecast_active(current)]

\* The five links of navbar(): text, href and the var that highlights it.
NavLinks ==
    << [text |-> "Home", href |-> Slash, active |-> "is_home_active"],
       [text |-> "Data Collection", href |-> Route("data-collection"),
        active |-> "is_data_collection_active"],
       [text |-> "EDA", href |-> Route("eda"), active |-> "is_eda_active"],
       [text |-> "Modeling", href |-> Route("modeling"), active |-> "is_modeling_active"],
       [text |-> "Forecast", href |-> Route("forecast"), active |-> "is_forecast_active"] >>

\* navbar()
navbar == [tag |-> "navbar", links |-> NavLinks]

\* The text decoration navbar() gives link i under NavbarState s.
LinkDecoration(s, i) == Shown(rx_cond(s[NavLinks[i].active], "underline", "none"))

---------------------------------------------------------------------------
(* components/layout.py: page_layout *)

\* Faulty variant of page_layout: the last child is lost.
page_layout_drop_last(children) ==
    << navbar,
       [tag |-> "box",
        children |-> IF children = << >> THEN << >>
                     ELSE SubSeq(children, 1, Len(children) - 1),
        padding_top |-> "80px", min_height |-> "100vh"] >>

\* page_layout(*children): the children of the fragment.
page_layout(children) ==
    << navbar,
       [tag |-> "box", children |-> children,
        padding_top |-> "80px", min_height |-> "100vh"] >>

---------------------------------------------------------------------------
(* The pages.  A page function gives the components at the top level of   *)
(* the page: the children of page_layout's fragment, or the one component *)
(* it returns.  The content of a page is summarised by its chapter        *)
(* progress row, its links in page order, its next-chapter link, and, for *)
(* the EDA page, the dataset overview and the charts.                     *)

NoSection == << >>

Content(page, progress, links, next, overview, charts) ==
    [tag |-> "content", page |-> page, progress |-> progress, links |-> links,
     next |-> next, overview |-> overview, charts |-> charts]

\* Faulty variant of home_page: the third card leads to /models.
home_page_models_card ==
    page_layout(<< Content("home_page", NoSection,
                           << Route("data-collection"), Route("eda"),
                              Route("models"), Route("forecast"),
                              << "https://github.com/HuyPham171-hub/gold-price-prediction" >> >>,
                           None, NoSection, << >>) >>)

\* pages/home.py: home_page, with the route of each nav_card
home_page ==
    page_layout(<< Content("home_page", NoSection,
                           << Route("data-collection"), Route("eda"),
                              Route("modeling"), Route("forecast"),
                              << "https://github.com/HuyPham171-hub/gold-price-prediction" >> >>,
                           None, NoSection, << >>) >>)

\* pages/data_collection.py: data_collection_page
data_collection_page ==
    page_layout(<< Content("data_collection_page", chapter_progress(1),
                           << << "https://finance.yahoo.com/" >>,
                              << "https://fred.stlouisfed.org/" >>,
                              << "https://www.gold.org/" >>,
                              << "https://www.matteoiacoviello.com/gpr.htm" >>,
                              Route("eda") >>,
                           Some(Route("eda")), NoSection, << >>) >>)

\* The charts of the EDA page that the modelled cache holds, in page order.
EdaCharts == << "gold_currency_heatmap", "gold_price_timeseries" >>

\* pages/eda.py: eda_page, over the CSV f and the cache c
eda_page(f, c) ==
    page_layout(<< Content("eda_page", chapter_progress(2),
                           << Route("modeling") >>,
                           Some(Route("modeling")),
                           << dataset_overview(f) >>,
                           [i \in 1..Len(EdaCharts) |->
                               LET r == load_plotly_chart(EdaCharts[i],
                                                          c[EdaCharts[i]],
                                                          c[EdaCharts[i]])
                               IN [chart_name |-> EdaCharts[i],
                                   raised |-> r.raised, fig |-> r.fig]]) >>)

\* Faulty variant of modeling_page: the next-chapter button leads back to /eda.
modeling_page_next_eda ==
    page_layout(<< Content("modeling_page", chapter_progress(3),
                           << Route("eda") >>,
                           Some(Route("eda")), NoSection, << >>) >>)

\* pages/modeling.py: modeling_page
modeling_page ==
    page_layout(<< Content("modeling_page", chapter_progress(3),
                           << Route("forecast") >>,
                           Some(Route("forecast")), NoSection, << >>) >>)

\* Faulty variant of forecast_page: the back link is missing.
forecast_page_no_back ==
    << Content("forecast_page", NoSection, << >>, None, NoSection, << >>) >>

\* pages/forecast.py: forecast_page
forecast_page ==
    << Content("forecast_page", NoSection, << Slash >>, None, NoSection, << >>) >>

\* The page Reflex serves for a path no page is registered under.
NotFoundPage ==
    << Content("404", NoSection, << >>, None, NoSection, << >>) >>

\* The component a page function builds.
PageTree(component, f, c) ==
    CASE component = "home_page" -> home_page
      [] component = "data_collection_page" -> data_collection_page
      [] component = "eda_page" -> eda_page(f, c)
      [] component = "modeling_page" -> modeling_page
      [] component = "forecast_page" -> forecast_page
      [] OTHER -> NotFoundPage

\* The cache as evaluating a page function leaves it.
CacheAfterPage(component, c) ==
    IF component = "eda_page"
    THEN [n \in ChartNames |-> load_plotly_chart(n, c[n], c[n]).file]
    ELSE c

---------------------------------------------------------------------------
(* goldsight.py: the app and its pages *)

\* Faulty variant of AddPageCalls: the modeling page is registered under /eda.
AddPageCallsEdaTwice ==
    << [component |-> "home_page", route |-> Slash],
       [component |-> "data_collection_page", route |-> Route("data-collection")],
       [component |-> "eda_page", route |-> Route("eda")],
       [component |-> "modeling_page", route |-> Route("eda")],
       [component |-> "forecast_page", route |-> Route("forecast")] >>

\* The add_page calls of the module, in order.
AddPageCalls ==
    << [component |-> "home_page", route |-> Slash],
       [component |-> "data_collection_page", route |-> Route("data-collection")],
       [component |-> "eda_page", route |-> Route("eda")],
       [component |-> "modeling_page", route |-> Route("modeling")],
       [component |-> "forecast_page", route |-> Route("forecast")] >>

\* The module has run to its end: every page is registered.
Serving == Len(registered) = Len(AddPageCalls)

---------------------------------------------------------------------------
(* State machine *)

\* The cache and the CSV as deployed: every chart generated, the full CSV.
DeployedCache == [n \in ChartNames |-> File("figure", n)]
DeployedCsv == [kind |-> "table", nrows |-> MaxRows, ncols |-> MaxCols]

CacheStates == [ChartNames -> UNION {FileStates(n) : n \in ChartNames}]

\* The paths the router is given: no path, the empty path, the registered
\* routes with and without a trailing slash, and paths of no page.
RouterPaths ==
    {None, Some(<< >>)}
    \cup {Some(AddPageCalls[i].route) : i \in 1..Len(AddPageCalls)}
    \cup {Some(WithSlash(AddPageCalls[i].route)) : i \in 1..Len(AddPageCalls)}
    \cup {Some(Route("about")), Some(Route("EDA")), Some(<< "eda" >>),
          Some(<< "/", "eda", "/", "summary" >>),
          Some(<< "/", "modeling", "/", "lstm" >>)}

\* No load_plotly_chart call is in flight.
Idle == [pc |-> "idle"]

\* The children page_layout is called with.
ChildIds == {"heading", "text"}
ChildSeqs == UNION {[1..n -> ChildIds] : n \in 0..MaxChildren}

\* Before goldsight.py registers its pages.  The files are as deployed,
\* except that either the cache or the CSV may be in any of its states.
Init ==
    /\ registered = << >>
    /\ \/ cache \in CacheStates /\ csv = DeployedCsv
       \/ cache = DeployedCache /\ csv \in CsvStates
    /\ \A n \in ChartNames : cache[n] \in FileStates(n)
    /\ path = Some(Slash)
    /\ nav = NavbarState(Some(Slash))
    /\ result = [op |-> "none"]
    /\ trail = << >>
    /\ call = Idle

\* goldsight.py runs its next app.add_page call.
AddPage ==
    /\ ~Serving
    /\ registered' = Append(registered, AddPageCalls[Len(registered) + 1])
    /\ UNCHANGED <<cache, csv, path, nav, result, trail, call>>

\* The router gets path p; NavbarState's computed vars follow.
RouterNavigate(p) ==
    /\ Serving
    /\ path' = p
    /\ nav' = NavbarState(p)
    /\ trail' = << >>
    /\ UNCHANGED <<registered, cache, csv, result, call>>

\* load_plotly_chart(chart_name) is called.
CallLoadPlotlyChart(chart_name) ==
    /\ Serving
    /\ LET r == load_plotly_chart(chart_name, cache[chart_name], cache[chart_name])
       IN /\ result' = [op |-> "load_plotly_chart", chart_name |-> chart_name,
                        file |-> cache[chart_name],
                        raised |-> r.raised, fig |-> r.fig]
          /\ cache' = [cache EXCEPT ![chart_name] = r.file]
    /\ UNCHANGED <<registered, csv, path, nav, trail, call>>

\* dataset_overview() is called.
CallDatasetOverview ==
    /\ Serving
    /\ result' = [op |-> "dataset_overview", section |-> dataset_overview(csv)]
    /\ UNCHANGED <<registered, cache, csv, path, nav, trail, call>>

\* chapter_progress(current) is called.
CallChapterProgress(current) ==
    /\ Serving
    /\ result' = [op |-> "chapter_progress", current |-> current,
                  row |-> chapter_progress(current)]
    /\ UNCHANGED <<registered, cache, csv, path, nav, trail, call>>

\* page_layout(*children) is called.
CallPageLayout(children) ==
    /\ Serving
    /\ result' = [op |-> "page_layout", children |-> children,
                  fragment |-> page_layout(children)]
    /\ UNCHANGED <<registered, cache, csv, path, nav, trail, call>>

\* The page function registered i-th is evaluated.
RenderPage(i) ==
    /\ Serving
    /\ LET component == registered[i].component IN
       /\ result' = [op |-> "page", component |-> component,
                     route |-> registered[i].route,
                     tree |-> PageTree(component, csv, cache)]
       /\ cache' = CacheAfterPage(component, cache)
    /\ UNCHANGED <<registered, csv, path, nav, trail, call>>

Next ==
    \/ AddPage
    \/ \E p \in RouterPaths : RouterNavigate(p)
    \/ \E n \in ChartNames : CallLoadPlotlyChart(n)
    \/ CallDatasetOverview
    \/ \E current \in 0..MaxCurrent : CallChapterProgress(current)
    \/ \E children \in ChildSeqs : CallPageLayout(children)
    \/ \E i \in 1..Len(registered) : RenderPage(i)

Spec == Init /\ [][Next]_vars

---------------------------------------------------------------------------
(* Browsing: the visitor opens a registered route and follows the links   *)
(* of the page shown.                                                     *)

MaxTrail == 5        \* a run of next-chapter clicks is followed up to MaxTrail pages

\* An href that stays inside the application.
IsInternal(href) == href # << >> /\ href[1] = "/"

\* The page has the navbar at its top level.
HasNavbar(tree) == \E i \in 1..Len(tree) : tree[i].tag = "navbar"

\* The content of a page: the child of page_layout's box, or the page itself.
PageContent(tree) ==
    IF tree[1].tag = "content" THEN tree[1] ELSE tree[2].children[1]

\* The hrefs of the navbar links and of the content links of a page.
NavbarHrefs(tree) ==
    IF HasNavbar(tree)
    THEN {tree[1].links[k].href : k \in 1..Len(tree[1].links)}
    ELSE {}

ContentHrefs(tree) ==
    {PageContent(tree).links[k] : k \in 1..Len(PageContent(tree).links)}

\* The internal hrefs a visitor can follow on a page, the next-chapter
\* button included.
InternalHrefs(tree) ==
    {h \in NavbarHrefs(tree) \cup ContentHrefs(tree) : IsInternal(h)}

\* The page function registered under a route, "404" when there is none.
ComponentAt(route) ==
    IF \E i \in 1..Len(registered) : registered[i].route = route
    THEN registered[CHOOSE i \in 1..Len(registered) :
                        registered[i].route = route].component
    ELSE "404"

\* The browser goes to href: the router path, NavbarState and the page
\* shown follow.
Visit(href, run) ==
    /\ path' = Some(href)
    /\ nav' = NavbarState(Some(href))
    /\ result' = [op |-> "page", component |-> ComponentAt(href),
                  route |-> href,
                  tree |-> PageTree(ComponentAt(href), csv, cache)]
    /\ cache' = CacheAfterPage(ComponentAt(href), cache)
    /\ trail' = run
    /\ UNCHANGED <<registered, csv, call>>

\* A page is shown and it is the page of the router's path.
Browsing == Serving /\ result.op = "page" /\ path = Some(result.route)

\* The visitor opens the i-th registered route.
OpenRoute(i) ==
    /\ Serving
    /\ Visit(registered[i].route, << registered[i].route >>)

\* The visitor clicks the k-th link of the navbar.
FollowNavbarLink(k) ==
    /\ Browsing
    /\ HasNavbar(result.tree)
    /\ k \in 1..Len(result.tree[1].links)
    /\ Visit(result.tree[1].links[k].href, << result.tree[1].links[k].href >>)

\* The visitor clicks the k-th link of the page content, when it is an
\* internal link other than the next-chapter button (a navigation card of
\* the home page, the back link of the forecast page).
FollowContentLink(k) ==
    /\ Browsing
    /\ LET c == PageContent(result.tree) IN
       /\ k \in 1..Len(c.links)
       /\ IsInternal(c.links[k])
       /\ c.next # Some(c.links[k])
       /\ Visit(c.links[k], << c.links[k] >>)

\* The visitor clicks the next-chapter button of the page.
FollowNextChapter ==
    /\ Browsing
    /\ Len(trail) < MaxTrail
    /\ LET c == PageContent(result.tree) IN
       /\ c.next # None
       /\ Visit(c.next[1], Append(trail, c.next[1]))

NavNext ==
    \/ AddPage
    \/ \E i \in 1..Len(registered) : OpenRoute(i)
    \/ \E k \in 1..Len(NavLinks) : FollowNavbarLink(k)
    \/ \E k \in 1..5 : FollowContentLink(k)
    \/ FollowNextChapter

SpecNav == Init /\ [][NavNext]_vars

---------------------------------------------------------------------------
(* pages/modeling.py: comparison_table_section *)

MaxTableRows == 3    \* comparison tables have 0..MaxTableRows rows

\* The R2 texts of the modelled rows.  A text is an optional sign token,
\* "U+2212" for the Unicode minus sign or "-" for the ASCII one, followed
\* by a fixed-decimal numeral.
R2Texts == { << "0.986" >>, << "0.973" >>, << "0.90" >>, << "0.900" >>,
             << "U+2212", "0.25" >> }

\* The value of a numeral in thousandths.
NumeralValue(n) ==
    CASE n = "0.986" -> 986
      [] n = "0.973" -> 973
      [] n = "0.90" -> 900
      [] n = "0.900" -> 900
      [] n = "0.25" -> 250

\* row[1].replace("\u2212", "-")
replace_minus(text) ==
    [i \in 1..Len(text) |-> IF text[i] = "U+2212" THEN "-" ELSE text[i]]

\* float(text), in thousandths: a ValueError for a text Python cannot parse,
\* such as one that starts with the Unicode minus sign.
py_float(text) ==
    IF text[1] = "-" THEN Ok(0 - NumeralValue(text[2]))
    ELSE IF text[1] = "U+2212"
    THEN Raise(0, "ValueError", << "could not convert string to float" >>)
    ELSE Ok(NumeralValue(text[1]))

\* float(row[1].replace("\u2212", "-")) of a row; a row is
\* << model, R2, RMSE, MAE, notes >>.
RowR2(row) == py_float(replace_minus(row[2]))

\* The rows a table is called with.
TableRow(r2) == << "model", r2, "rmse", "mae", "notes" >>
TableData == UNION {[1..n -> {TableRow(t) : t \in R2Texts}] : n \in 0..MaxTableRows}

\* Faulty variant of BestIndex: the last row with the highest R2.
BestIndexLast(data, highlight_best) ==
    IF highlight_best /\ Len(data) > 0
    THEN LET best_r2 == CHOOSE v \in {RowR2(data[i]).val : i \in 1..Len(data)} :
                            \A i \in 1..Len(data) : RowR2(data[i]).val <= v
         IN CHOOSE i \in 1..Len(data) :
                /\ RowR2(data[i]).val = best_r2
                /\ \A j \in (i + 1)..Len(data) : RowR2(data[j]).val # best_r2
    ELSE 1

\* best_idx: the first row with the highest R2; the first row (Python index
\* 0) when nothing is to be highlighted.
BestIndex(data, highlight_best) ==
    IF highlight_best /\ Len(data) > 0
    THEN LET best_r2 == CHOOSE v \in {RowR2(data[i]).val : i \in 1..Len(data)} :
                            \A i \in 1..Len(data) : RowR2(data[i]).val <= v
         IN CHOOSE i \in 1..Len(data) :
                /\ RowR2(data[i]).val = best_r2
                /\ \A j \in 1..(i - 1) : RowR2(data[j]).val # best_r2
    ELSE 1

\* Faulty variant of BadgeColor: 0.9 itself is green.
BadgeColorInclusive(r2) == IF r2 >= 900 THEN "green" ELSE "gray"

\* color_scheme of the R2 badge: "green" if float(...) > 0.9 else "gray"
BadgeColor(r2) == IF r2 > 900 THEN "green" ELSE "gray"

\* The table row built for data[idx].
TableRowComponent(data, idx, best_idx, highlight_best) ==
    LET row == data[idx]
        is_best == (idx = best_idx) /\ highlight_best
    IN [model |-> row[1],
        trophy |-> Shown(rx_cond(is_best, "trophy", "fragment")),
        badge |-> [text |-> row[2], color_scheme |-> BadgeColor(RowR2(row).val)],
        cells |-> << row[3], row[4], row[5] >>,
        background |-> IF is_best THEN rx_color("green", 2) ELSE << "transparent" >>,
        font_weight |-> IF is_best THEN "bold" ELSE "normal"]

\* comparison_table_section(title, description, data, highlight_best): the
\* body rows of the table, or the exception a float() raised.
comparison_table_section(data, highlight_best) ==
    IF \E i \in 1..Len(data) : ~RowR2(data[i]).ok
    THEN [raised |-> "ValueError", rows |-> << >>]
    ELSE [raised |-> "",
          rows |-> [idx \in 1..Len(data) |->
                       TableRowComponent(data, idx,
                                         BestIndex(data, highlight_best),
                                         highlight_best)]]

\* comparison_table_section(..., data, highlight_best) is called.
CallComparisonTable(data, highlight_best) ==
    /\ result' = [op |-> "comparison_table_section", data |-> data,
                  highlight_best |-> highlight_best,
                  table |-> comparison_table_section(data, highlight_best)]
    /\ UNCHANGED <<registered, cache, csv, path, nav, trail, call>>

\* The files as deployed, no page registered yet.
TableInit == Init /\ cache = DeployedCache /\ csv = DeployedCsv

TableNext ==
    \E data \in TableData : \E highlight_best \in BOOLEAN :
        CallComparisonTable(data, highlight_best)

SpecTable == TableInit /\ [][TableNext]_vars

---------------------------------------------------------------------------
(* load_plotly_chart step by step, with another process changing the file *)

\* The call variable of a load_plotly_chart call in flight:
\*   pc "checked"  cache_path.exists() returned true, open() not yet run
\*   pc "opened"   open() returned the handle, json.load not yet run
\* handle is the open handle ([file, mode]), linked tells whether the path
\* still names the file the handle reads, changes collects what the other
\* process did to the file since the existence check.
Checked(chart_name) ==
    [pc |-> "checked", chart_name |-> chart_name,
     handle |-> [file |-> File("missing", chart_name), mode |-> CacheOpenMode],
     linked |-> FALSE, changes |-> {}]

\* The result of a finished stepwise call: the step it ended in, the file
\* that step acted on, and what the call gave back.
Finished(c, step, file, r) ==
    [op |-> "load_plotly_chart_steps", chart_name |-> c.chart_name,
     changes |-> c.changes, step |-> step, file |-> file,
     raised |-> r.raised, fig |-> r.fig]

\* if not cache_path.exists(): return the not-found placeholder
RaceCheck(chart_name) ==
    /\ call = Idle
    /\ IF exists(cache[chart_name])
       THEN /\ call' = Checked(chart_name)
            /\ result' = [op |-> "none"]
       ELSE /\ call' = Idle
            /\ result' = Finished(Checked(chart_name), "exists", cache[chart_name],
                                  load_plotly_chart(chart_name, cache[chart_name],
                                                    cache[chart_name]))
    /\ UNCHANGED <<registered, cache, csv, path, nav, trail>>

\* with open(cache_path, 'r') as f
RaceOpen ==
    /\ call.pc = "checked"
    /\ LET n == call.chart_name
           o == py_open(cache[n], CacheOpenMode)
       IN /\ cache' = [cache EXCEPT ![n] = o.after]
          /\ IF o.res.ok
             THEN /\ call' = [call EXCEPT !.pc = "opened", !.handle = o.res.val,
                                          !.linked = TRUE]
                  /\ UNCHANGED result
             ELSE /\ call' = Idle
                  /\ result' = Finished(call, "open", cache[n],
                                        Except(n, o.res, o.after))
    /\ UNCHANGED <<registered, csv, path, nav, trail>>

\* fig_dict = json.load(f); fig = go.Figure(fig_dict); return fig
RaceRead ==
    /\ call.pc = "opened"
    /\ LET n == call.chart_name
       IN result' = Finished(call, "read", call.handle.file,
                             ReadOpened(n, call.handle, cache[n]))
    /\ call' = Idle
    /\ UNCHANGED <<registered, cache, csv, path, nav, trail>>

\* Another process has changed the file of the call in flight.
Changed(what, handle, linked) ==
    call' = [call EXCEPT !.changes = @ \cup {what}, !.handle = handle,
                         !.linked = linked]

\* Another process unlinks the file: an open handle keeps what it reads.
EnvDelete ==
    /\ call.pc \in {"checked", "opened"}
    /\ exists(cache[call.chart_name])
    /\ cache' = [cache EXCEPT ![call.chart_name] = File("missing", call.chart_name)]
    /\ Changed("deleted", call.handle, FALSE)
    /\ UNCHANGED <<registered, csv, path, nav, result, trail>>

\* Another process truncates the file in place: a handle open on that file
\* reads the empty text.
EnvTruncate ==
    /\ call.pc \in {"checked", "opened"}
    /\ exists(cache[call.chart_name])
    /\ LET t == File("notjson", call.chart_name)
       IN /\ cache' = [cache EXCEPT ![call.chart_name] = t]
          /\ Changed("truncated",
                     IF call.linked THEN [call.handle EXCEPT !.file = t]
                     ELSE call.handle,
                     call.linked)
    /\ UNCHANGED <<registered, csv, path, nav, result, trail>>

\* Another process puts a new file f under the path (write elsewhere and
\* rename): an open handle keeps reading the old file.
EnvReplace(f) ==
    /\ call.pc \in {"checked", "opened"}
    /\ exists(f)
    /\ f # cache[call.chart_name]
    /\ cache' = [cache EXCEPT ![call.chart_name] = f]
    /\ Changed("replaced", call.handle, FALSE)
    /\ UNCHANGED <<registered, csv, path, nav, result, trail>>

\* The files as deployed, no call in flight.
RaceInit == Init /\ cache = DeployedCache /\ csv = DeployedCsv

RaceNext ==
    \/ \E n \in ChartNames : RaceCheck(n)
    \/ RaceOpen
    \/ RaceRead
    \/ EnvDelete
    \/ EnvTruncate
    \/ \E n \in ChartNames : \E f \in FileStates(n) : EnvReplace(f)

SpecRace == RaceInit /\ [][RaceNext]_vars

---------------------------------------------------------------------------
(* Properties *)

IsLoad == result.op = "load_plotly_chart"

\* C1: when the cache file <chart_name>.json does not exist,
\* load_plotly_chart(chart_name) returns, without raising, a figure whose
\* title contains chart_name and whose single annotation's text contains
\* chart_name.
C1_MissingFilePlaceholder ==
    (IsLoad /\ ~exists(result.file)) =>
        /\ result.raised = ""
        /\ Contains(result.fig.layout.title, result.chart_name)
        /\ Len(result.fig.layout.annotations) = 1
        /\ Contains(result.fig.layout.annotations[1].text, result.chart_name)

C1_Witness ==
    /\ IsLoad
    /\ result.file.kind = "missing"
    /\ result.fig.layout.title = << "Chart '", result.chart_name, "' not found" >>

\* The states of an existing cache file that make the load fail: open()
\* fails, json.load fails, or go.Figure rejects the parsed value.
Malformed == {"unreadable", "notjson", "notfigure"}

C3_ErrorMessageShown ==
    (result.op = "dataset_overview" /\ ~result.section.data_loaded) =>
        LET shown == Shown(result.section.preview)
        IN \E i \in 1..Len(shown.body) : \E j \in 1..Len(shown.body[i]) :
               Contains(shown.body[i][j], "Could not load data: ")

\* C4: the application registers exactly the five routes /,
\* /data-collection, /eda, /modeling and /forecast, each once and each bound
\* to its own page function: no route is ever registered twice or to
\* another page, and once the module has run all five are registered.
C4_PageOf ==
    [r \in {Slash, Route("data-collection"), Route("eda"), Route("modeling"),
            Route("forecast")} |->
        CASE r = Slash -> "home_page"
          [] r = Route("data-collection") -> "data_collection_page"
          [] r = Route("eda") -> "eda_page"
          [] r = Route("modeling") -> "modeling_page"
          [] r = Route("forecast") -> "forecast_page"]

C4_ExactlyFiveRoutes ==
    /\ \A i \in 1..Len(registered) :
          /\ registered[i].route \in DOMAIN C4_PageOf
          /\ registered[i].component = C4_PageOf[registered[i].route]
          /\ \A j \in 1..Len(registered) :
                registered[j].route = registered[i].route => j = i
    /\ Serving => {registered[i].route : i \in 1..Len(registered)} = DOMAIN C4_PageOf

C4_Witness ==
    /\ Serving
    /\ Len(registered) = 5
    /\ result.op = "page"

\* C5: no step of the application changes the CSV file or a chart file of
\* the cache: page rendering, load_plotly_chart and dataset_overview only
\* read them, on the success path and on every error path.
C5_FilesReadOnly == [][cache' = cache /\ csv' = csv]_vars

C5_Witness ==
    /\ result.op = "page"
    /\ result.component = "eda_page"
    /\ \E i \in 1..Len(EdaCharts) :
          /\ cache[EdaCharts[i]].kind = "notjson"
          /\ result.tree[2].children[1].charts[i].fig.layout.title[1] = "Error loading '"

\* C6: when the cache file holds a valid figure definition,
\* load_plotly_chart returns the figure built from exactly that content: the
\* stored data and the stored layout, with no title, annotation or height
\* added (for the JSON value null, the empty figure).
C6_ValidFileLoadedAsStored ==
    /\ (IsLoad /\ result.file.kind = "figure") =>
          /\ result.raised = ""
          /\ result.fig.data = result.file.content.data
          /\ result.fig.layout = result.file.content.layout
    /\ (IsLoad /\ result.file.kind = "null") =>
          /\ result.raised = ""
          /\ result.fig = EmptyFigure

C6_Witness ==
    /\ IsLoad
    /\ result.file.kind = "figure"
    /\ result.fig.layout.title = << "Notebook chart ", result.chart_name >>

\* C7: NavbarState.current_route is never the empty string: it is the
\* router path when that is a non-empty string, and "/" when the path is
\* empty or None.
C7_CurrentRouteNeverEmpty ==
    /\ nav.current_route # << >>
    /\ (path = None \/ path = Some(<< >>)) => nav.current_route = << "/" >>
    /\ (path # None /\ path # Some(<< >>)) => nav.current_route = path[1]

C7_Witness ==
    /\ path = Some(<< >>)
    /\ nav.current_route = << "/" >>

\* How chapter_progress draws the three states of a circle and the two of
\* a connector.
C8_Amber == << "amber", "9" >>
C8_IsCurrent(c) == c.background_color = C8_Amber /\ c.number_color = << "white" >>
C8_IsCompleted(c) == c.border = C8_Amber /\ ~C8_IsCurrent(c)
C8_IsGray(c) ==
    /\ c.border = << "gray", "5" >>
    /\ c.background_color = << "gray", "3" >>
    /\ c.number_color = << "gray", "11" >>

\* C8: for current in 1..4, chapter_progress(current) marks as current
\* exactly the circle at position current, as completed exactly the circles
\* at positions < current, colours a connector amber exactly when its
\* position < current, and leaves circles and connectors at positions >
\* current gray.
C8_ProgressMarks ==
    (result.op = "chapter_progress" /\ result.current \in 1..4) =>
        /\ Len(result.row) = 7
        /\ \A k \in 1..4 :
              LET c == result.row[2 * k - 1] IN
              /\ c.tag = "circle"
              /\ C8_IsCurrent(c) <=> k = result.current
              /\ C8_IsCompleted(c) <=> k < result.current
              /\ C8_IsGray(c) <=> k > result.current
        /\ \A k \in 1..3 :
              LET l == result.row[2 * k] IN
              /\ l.tag = "line"
              /\ l.background_color = C8_Amber <=> k < result.current
              /\ l.background_color = << "gray", "5" >> <=> k >= result.current

C8_Witness ==
    /\ result.op = "chapter_progress"
    /\ result.current = 3
    /\ C8_IsCompleted(result.row[1])
    /\ C8_IsCurrent(result.row[5])
    /\ C8_IsGray(result.row[7])

\* C9: page_layout(*children) gives the navbar first, followed by one box
\* holding exactly the given children in the given order, for any number of
\* children including none.
C9_LayoutKeepsChildren ==
    result.op = "page_layout" =>
        /\ Len(result.fragment) = 2
        /\ result.fragment[1].tag = "navbar"
        /\ result.fragment[2].tag = "box"
        /\ result.fragment[2].children = result.children

C9_Witness ==
    /\ result.op = "page_layout"
    /\ Len(result.children) >= 2
    /\ result.fragment[2].children[2] = result.children[2]

\* The active predicates in the order of the navbar's links, and the route
\* each belongs to.
C10_Active == << "is_home_active", "is_data_collection_active", "is_eda_active",
                 "is_modeling_active", "is_forecast_active" >>
C10_Route == << << "/" >>, << "/", "data-collection" >>, << "/", "eda" >>,
                << "/", "modeling" >>, << "/", "forecast" >> >>

\* C10: for every current route at most one of the five is_*_active
\* predicates is true; on a registered route exactly that route's predicate
\* is true; on a non-home route written with a trailing slash the same
\* predicate is true; on any other path none is true.  The navbar
\* underlines exactly the link whose predicate is true.
C10_OneActivePerRoute ==
    LET cur == nav.current_route IN
    /\ Cardinality({i \in 1..5 : nav[C10_Active[i]]}) <= 1
    /\ \A i \in 1..5 :
          /\ nav[C10_Active[i]] <=>
                \/ cur = C10_Route[i]
                \/ i # 1 /\ cur = C10_Route[i] \o << "/" >>
          /\ LinkDecoration(nav, i) = "underline" <=> nav[C10_Active[i]]

C10_Witness ==
    /\ nav.current_route = << "/", "eda", "/" >>
    /\ nav.is_eda_active
    /\ ~nav.is_home_active

\* The routes registered so far.
RegisteredRoutes == {registered[i].route : i \in 1..Len(registered)}

\* C11: when the visitor starts at a registered route and follows internal
\* links (navbar links, home cards, next-chapter buttons, the forecast
\* page's back link), the current route is always a registered route and
\* the page shown is that route's page.
C11_NavigationClosed ==
    Browsing =>
        /\ nav.current_route \in RegisteredRoutes
        /\ result.component # "404"
        /\ result.component = ComponentAt(nav.current_route)

C11_Witness ==
    /\ Browsing
    /\ path = Some(<< "/", "modeling" >>)
    /\ trail = << << "/", "data-collection" >>, << "/", "eda" >>, << "/", "modeling" >> >>

\* The chapters in narrative order.
Chapters == << << "/", "data-collection" >>, << "/", "eda" >>,
               << "/", "modeling" >>, << "/", "forecast" >> >>

\* C12: the next-chapter buttons form the chain /data-collection -> /eda ->
\* /modeling -> /forecast: each button leads to the next chapter, /forecast
\* has no next-chapter button, and a run of next-chapter clicks started at
\* /data-collection walks the chapters in order without revisiting one, so
\* it is at /forecast after exactly three clicks.
C12_NextChapterChain ==
    Browsing =>
        /\ \A j \in 1..3 :
              result.route = Chapters[j] =>
                  PageContent(result.tree).next = Some(Chapters[j + 1])
        /\ result.route = Chapters[4] => PageContent(result.tree).next = None
        /\ \A k \in 1..(Len(trail) - 1) :
              \E j \in 1..3 : trail[k] = Chapters[j] /\ trail[k + 1] = Chapters[j + 1]
        /\ \A k, l \in 1..Len(trail) : trail[k] = trail[l] => k = l
        /\ (Len(trail) > 0 /\ trail[1] = Chapters[1]) =>
              /\ Len(trail) <= 4
              /\ trail = SubSeq(Chapters, 1, Len(trail))
              /\ result.route = Chapters[4] <=> Len(trail) = 4

C12_Witness ==
    /\ Browsing
    /\ trail = Chapters
    /\ path = Some(<< "/", "forecast" >>)
    /\ PageContent(result.tree).next = None

\* C13: every registered route is one link away from /, and from every
\* registered route, /forecast included, / is one link away: no page is a
\* dead end.
C13_NoDeadEnd ==
    Browsing =>
        /\ << "/" >> \in InternalHrefs(result.tree)
        /\ result.route = << "/" >> =>
              /\ RegisteredRoutes \subseteq InternalHrefs(result.tree)
              /\ \A j \in 1..4 : Chapters[j] \in InternalHrefs(result.tree)

C13_Witness ==
    /\ Browsing
    /\ result.route = << "/", "forecast" >>
    /\ InternalHrefs(result.tree) = {<< "/" >>}

\* C14 (as claimed): every routed page is built through page_layout, so on
\* every reachable route the navbar with its five links is present.
C14_NavbarOnEveryPage ==
    Browsing =>
        /\ HasNavbar(result.tree)
        /\ Cardinality(NavbarHrefs(result.tree)) = 5

\* The chapter the progress row of a page shows as current: 0 when the page
\* has no progress row or the row marks no circle.
DisplayedCurrent(tree) ==
    LET row == PageContent(tree).progress IN
    IF Len(row) = 0 THEN 0
    ELSE IF \E k \in 1..4 : C8_IsCurrent(row[2 * k - 1])
    THEN CHOOSE k \in 1..4 : C8_IsCurrent(row[2 * k - 1])
    ELSE 0

\* C15 (as claimed): each chapter page shows the progress row with current
\* equal to the chapter's position (data collection 1, EDA 2, modeling 3,
\* forecast 4).
C15_ProgressMatchesChapter ==
    Browsing =>
        \A j \in 1..4 :
            result.route = Chapters[j] => DisplayedCurrent(result.tree) = j

IsTable == result.op = "comparison_table_section"

\* The R2 of a row as a scaled integer, the Unicode minus read as '-'.
C16_R2(row) ==
    IF row[2][1] \in {"U+2212", "-"}
    THEN 0 - NumeralValue(row[2][2])
    ELSE NumeralValue(row[2][1])

\* The rows of the table drawn as best: green background, bold, trophy.
C16_Highlighted(rows) ==
    {i \in 1..Len(rows) :
        \/ rows[i].background = << "green", "2" >>
        \/ rows[i].font_weight = "bold"
        \/ rows[i].trophy = "trophy"}

\* C16: the call does not fail; with highlight_best true and non-empty data
\* exactly one row is highlighted, the first row whose R2 equals the
\* maximum R2 of all rows; with highlight_best false or empty data no row
\* is highlighted.
C16_BestRowHighlighted ==
    IsTable =>
        LET data == result.data
            rows == result.table.rows
        IN /\ result.table.raised = ""
           /\ (result.highlight_best /\ Len(data) > 0) =>
                 \E b \in 1..Len(data) :
                    /\ C16_Highlighted(rows) = {b}
                    /\ rows[b].background = << "green", "2" >>
                    /\ rows[b].font_weight = "bold"
                    /\ rows[b].trophy = "trophy"
                    /\ \A i \in 1..Len(data) : C16_R2(data[i]) <= C16_R2(data[b])
                    /\ \A i \in 1..(b - 1) : C16_R2(data[i]) < C16_R2(data[b])
           /\ (~result.highlight_best \/ Len(data) = 0) =>
                 C16_Highlighted(rows) = {}

C16_Witness ==
    /\ IsTable
    /\ result.highlight_best
    /\ Len(result.data) = 3
    /\ result.data[1][2] = << "0.973" >>
    /\ result.data[2][2] = << "0.986" >>
    /\ result.data[3][2] = << "0.986" >>
    /\ C16_Highlighted(result.table.rows) = {2}

\* C17: every input row yields exactly one table row, in input order, and
\* a row's R2 badge is green exactly when its R2 is strictly greater than
\* 0.9 (0.9 itself and negative values written with the Unicode minus give
\* gray), whichever row is highlighted.
C17_RowsAndBadges ==
    IsTable =>
        LET data == result.data
            rows == result.table.rows
        IN /\ Len(rows) = Len(data)
           /\ \A i \in 1..Len(data) :
                 /\ rows[i].model = data[i][1]
                 /\ rows[i].badge.text = data[i][2]
                 /\ rows[i].cells = << data[i][3], data[i][4], data[i][5] >>
                 /\ rows[i].badge.color_scheme = "green" <=> C16_R2(data[i]) > 900
                 /\ rows[i].badge.color_scheme = "gray" <=> C16_R2(data[i]) <= 900

C17_Witness ==
    /\ IsTable
    /\ Len(result.data) = 3
    /\ result.data[1][2] = << "0.90" >>
    /\ result.data[2][2] = << "U+2212", "0.25" >>
    /\ result.data[3][2] = << "0.986" >>
    /\ result.table.rows[1].badge.color_scheme = "gray"
    /\ result.table.rows[2].badge.color_scheme = "gray"
    /\ result.table.rows[3].badge.color_scheme = "green"

IsOverview == result.op = "dataset_overview"

\* The preview table shows the first min(10, N) rows of the file, in file
\* order, with all columns in file order.
C18_FirstRowsShown ==
    (IsOverview /\ csv.kind = "table") =>
        LET shown == Shown(result.section.preview)
        IN /\ shown.tag = "preview"
           /\ shown.header = SubSeq(ColNames, 1, csv.ncols)
           /\ Len(shown.body) = Min(10, csv.nrows)
           /\ Len(shown.body) <= 10
           /\ \A i \in 1..Len(shown.body) :
                 /\ Len(shown.body[i]) = csv.ncols
                 /\ \A j \in 1..csv.ncols :
                       shown.body[i][j] = CellText(FormatCell(i, j))

\* C18 (as claimed): when the CSV with N data rows loads, the preview table
\* shows exactly the first min(10, N) rows in file order with all columns,
\* never more than 10 rows, and the number of rows shown is the number the
\* caption "Showing 10 of N rows" gives.
C18_PreviewAgreesWithCaption ==
    (IsOverview /\ csv.kind = "table") =>
        LET shown == Shown(result.section.preview)
        IN /\ C18_FirstRowsShown
           /\ shown.caption[2] = ToString(Len(shown.body))
           /\ shown.caption[4] = ToString(csv.nrows)

C19_Features == result.section.metrics[1].value
C19_Observations == result.section.metrics[3].value

\* The cards show the counts of a CSV that loads and "17" and "233" when
\* loading fails.
C19_CountsOrFallback ==
    /\ result.section.metrics[1].label = "Total Features"
    /\ result.section.metrics[3].label = "Monthly Observations"
    /\ csv.kind = "table" =>
          /\ C19_Features = ToString(csv.ncols)
          /\ C19_Observations = ToString(csv.nrows)
    /\ csv.kind # "table" =>
          /\ C19_Features = "17"
          /\ C19_Observations = "233"

\* C19 (as claimed): the "Total Features" and "Monthly Observations" cards
\* show the column count and the row count of the CSV when it loads, fall
\* back to "17" and "233" when loading fails, and never show 0.
C19_CardsNeverZero ==
    IsOverview =>
        /\ C19_CountsOrFallback
        /\ C19_Features # "0"
        /\ C19_Observations # "0"

\* C19 (amended): the cards show the column count and the row count of the
\* CSV when it loads and fall back to "17" and "233" when loading fails;
\* "Total Features" never shows 0, and "Monthly Observations" shows 0
\* exactly when the loaded CSV has a header and no data rows.
C19_CardsZeroOnlyForEmptyTable ==
    IsOverview =>
        /\ C19_CountsOrFallback
        /\ C19_Features # "0"
        /\ C19_Observations = "0" <=> (csv.kind = "table" /\ csv.nrows = 0)

C19_Witness ==
    /\ IsOverview
    /\ csv.kind = "table"
    /\ csv.nrows = 0
    /\ result.section.data_loaded
    /\ C19_Observations = "0"

IsRace == result.op = "load_plotly_chart_steps" /\ result.changes # {}

\* The error placeholder of the except branch.
C20_IsErrorPlaceholder(fig, chart_name) ==
    /\ fig.layout.title = << "Error loading '", chart_name, "'" >>
    /\ Len(fig.layout.annotations) = 1
    /\ fig.layout.annotations[1].text[1] = "Error: "
    /\ fig.data = << >>

\* C20 (as claimed): if the file is deleted, truncated or replaced after
\* cache_path.exists() returned true and before or during open/json.load,
\* the call never raises and returns the error placeholder.
C20_RaceGivesPlaceholder ==
    IsRace =>
        /\ result.raised = ""
        /\ C20_IsErrorPlaceholder(result.fig, result.chart_name)

\* C20 (amended): whatever another process does to the file after the
\* existence check, the call never raises and returns a figure: the error
\* placeholder when open, json.load or go.Figure fails on what it finds,
\* and the figure it read when the handle still reads a valid file.
C20_RaceTotal ==
    IsRace =>
        /\ result.raised = ""
        /\ IF result.step = "read" /\ result.file.kind \in {"null", "figure"}
           THEN /\ result.fig.data = result.file.content.data
                /\ result.fig.layout = result.file.content.layout
           ELSE C20_IsErrorPlaceholder(result.fig, result.chart_name)

C20_Witness ==
    /\ IsRace
    /\ result.changes = {"deleted"}
    /\ result.step = "read"
    /\ result.raised = ""
    /\ result.fig.data = << result.chart_name >>
    /\ cache[result.chart_name].kind = "missing"

====
